---- MODULE Spec2Model ----
(***************************************************************************)
(* Verification model of enromgraphics/wiring-compute.                     *)
(*                                                                         *)
(*   src/centerline_core.py  glyph -> polygon -> raster -> skeleton ->     *)
(*                           length pipeline (compute_lengths)             *)
(*   src/compute_app.py      advance-width fallback, strategy dispatch,    *)
(*                           neighbour-sum estimator of the export path    *)
(*                                                                         *)
(* Three specifications share this module:                                 *)
(*   Spec        compute_lengths_dispatch / compute_lengths /              *)
(*               compute_lengths_fallback on bounded fonts and texts       *)
(*   SpecLength  the two skeleton length estimators on bounded grids       *)
(*   SpecRaster  _rasterize_polygon_fast on bounded shapes and resolutions *)
(*                                                                         *)
(* Python floats are modelled as binary floating point numbers with a      *)
(* MantBits-bit significand and round-to-nearest-even, held as integer     *)
(* multiples of 2^-QBits ("quanta").  The libraries the code calls         *)
(* (fontTools, shapely, skimage, Pillow) are outside the repository: what  *)
(* they return is an input of the model, drawn from bounded sets.          *)
(***************************************************************************)
EXTENDS Integers, Sequences, FiniteSets, TLC

(***************************************************************************)
(* Bounds of the model.                                                    *)
(***************************************************************************)
MantBits == 3
QBits == 8
MaxLen == 3

Quantum == 2 ^ QBits

(***************************************************************************)
(* Floating point arithmetic on non-negative values.                       *)
(***************************************************************************)
RECURSIVE ExpOf(_, _, _)
\* least exponent e >= 0 with n/d < 2^(MantBits+e)
ExpOf(n, d, e) == IF n < (2 ^ (MantBits + e)) * d THEN e ELSE ExpOf(n, d, e + 1)

\* the float nearest to the rational n/d (in quanta), ties to even
RoundRat(n, d) ==
    LET e == ExpOf(n, d, 0)
        D == d * (2 ^ e)
        q == n \div D
        r == n % D
        m == IF 2 * r < D THEN q
             ELSE IF 2 * r > D THEN q + 1
             ELSE IF q % 2 = 0 THEN q ELSE q + 1
    IN  m * (2 ^ e)

\* float(x) of an integer x
FloatOf(x) == RoundRat(x * Quantum, 1)
\* a * b, a / b, a + b of two floats; a / b of a float and an int
FMul(a, b) == RoundRat(a * b, Quantum)
FDivInt(a, b) == RoundRat(a, b)
FAdd(a, b) == RoundRat(a + b, 1)

Max(a, b) == IF a >= b THEN a ELSE b

(***************************************************************************)
(* Fonts.  A font is what fontTools reads out of font_bytes: whether the   *)
(* binary loads at all, head.unitsPerEm, the character map and, for each   *)
(* glyph, the outline it draws and its advance width (hmtx).               *)
(***************************************************************************)
Chars == {" ", "A", "B"}
None == "None"
GlyphNames == {"box", "bar", "blank", "dot", "flat", "point", "bad"}
Upms == {1000, 2048}
Heights == {FloatOf(100), FloatOf(75)}

\* what drawing the glyph and building its polygons yields:
\*   draws      FALSE when glyphSet[gname].draw(pen) or unary_union raises
\*   contours   number of points of each contour the pen emitted
\*   is_empty   shape.is_empty of the union of the polygons
\*   width, height   extents of shape.bounds (floats)
\*   length_px  the pixel length the stepping loop of _skeleton_length sums
\*              over the skeleton of the glyph's mask (a float)
\*   advance    hmtx advance width in font units (an int)
\* The last entry is the glyph ".notdef", which no character maps to.
Glyph(g) ==
    CASE g = "box"   -> [draws |-> TRUE, contours |-> <<4>>, is_empty |-> FALSE,
                         width |-> FloatOf(600), height |-> FloatOf(900),
                         length_px |-> FloatOf(300), advance |-> 650]
      [] g = "bar"   -> [draws |-> TRUE, contours |-> <<4, 2, 5>>, is_empty |-> FALSE,
                         width |-> FloatOf(200), height |-> FloatOf(700),
                         length_px |-> FloatOf(450), advance |-> 280]
      [] g = "blank" -> [draws |-> TRUE, contours |-> <<>>, is_empty |-> TRUE,
                         width |-> 0, height |-> 0,
                         length_px |-> 0, advance |-> 250]
      [] g = "dot"   -> [draws |-> TRUE, contours |-> <<1, 2>>, is_empty |-> TRUE,
                         width |-> 0, height |-> 0,
                         length_px |-> 0, advance |-> 300]
      [] g = "flat"  -> [draws |-> TRUE, contours |-> <<3>>, is_empty |-> TRUE,
                         width |-> 0, height |-> 0,
                         length_px |-> 0, advance |-> 400]
      [] g = "point" -> [draws |-> TRUE, contours |-> <<3>>, is_empty |-> FALSE,
                         width |-> 0, height |-> 0,
                         length_px |-> 0, advance |-> 120]
      [] g = "bad"   -> [draws |-> FALSE, contours |-> <<>>, is_empty |-> TRUE,
                         width |-> 0, height |-> 0,
                         length_px |-> 0, advance |-> 450]
      [] OTHER       -> [draws |-> TRUE, contours |-> <<4>>, is_empty |-> FALSE,
                         width |-> FloatOf(500), height |-> FloatOf(700),
                         length_px |-> FloatOf(350), advance |-> 500]

\* character maps: the space maps to a blank glyph, "A" to any glyph or to
\* nothing, "B" to nothing or to one of three glyphs
CMaps ==
    {c \in [Chars -> GlyphNames \cup {None}] :
        /\ c[" "] = "blank"
        /\ c["B"] \in {None, "bar", "flat", "bad"}}

Fonts ==
    {[loadable |-> TRUE, upm |-> u, cmap |-> c] : u \in Upms, c \in CMaps}
    \cup {[loadable |-> FALSE, upm |-> 1000, cmap |-> [ch \in Chars |-> None]]}

RECURSIVE SeqsUpTo(_, _)
SeqsUpTo(S, n) ==
    IF n = 0 THEN {<<>>}
    ELSE LET shorter == SeqsUpTo(S, n - 1)
         IN  shorter \cup {Append(t, c) : t \in {u \in shorter : Len(u) = n - 1}, c \in S}

Texts == SeqsUpTo(Chars, MaxLen)

(***************************************************************************)
(* centerline_core.py                                                      *)
(***************************************************************************)
raster == 400

\* variant of get_polygons: a contour of 2 points is kept
get_polygons_two(contours) ==
    SelectSeq(contours, LAMBDA n : n > 1)

\* GlyphToPolygonPen.get_polygons: one polygon per contour of more than 2 points
get_polygons(contours) ==
    SelectSeq(contours, LAMBDA n : n > 2)

\* the value None of _glyph_polygon, as a shape record
NoShape == [is_none |-> TRUE, is_empty |-> TRUE, width |-> 0, height |-> 0, length_px |-> 0]

\* variant of DrawRaises: the exception is caught and the glyph treated as drawn
DrawRaises_swallowed(gname) == FALSE

\* glyphSet[gname].draw(pen) or unary_union(polys) raises
DrawRaises(gname) == ~Glyph(gname).draws

\* variant of GlyphPolygon: no early return for an unmapped character, the
\* lookup glyphSet[None] raises
GlyphPolygon_keyerror(font, ch) ==
    LET gname == font.cmap[ch]
    IN  IF gname = None THEN [raised |-> TRUE, shape |-> NoShape]
        ELSE IF DrawRaises(gname) THEN [raised |-> TRUE, shape |-> NoShape]
        ELSE IF get_polygons(Glyph(gname).contours) = <<>>
             THEN [raised |-> FALSE, shape |-> NoShape]
        ELSE [raised |-> FALSE,
              shape |-> [is_none |-> FALSE,
                         is_empty |-> Glyph(gname).is_empty,
                         width |-> Glyph(gname).width,
                         height |-> Glyph(gname).height,
                         length_px |-> Glyph(gname).length_px]]

\* _glyph_polygon: None, a shape, or an exception out of draw / unary_union
GlyphPolygon(font, ch) ==
    LET gname == font.cmap[ch]
    IN  IF gname = None THEN [raised |-> FALSE, shape |-> NoShape]
        ELSE IF DrawRaises(gname) THEN [raised |-> TRUE, shape |-> NoShape]
        ELSE IF get_polygons(Glyph(gname).contours) = <<>>
             THEN [raised |-> FALSE, shape |-> NoShape]
        ELSE [raised |-> FALSE,
              shape |-> [is_none |-> FALSE,
                         is_empty |-> Glyph(gname).is_empty,
                         width |-> Glyph(gname).width,
                         height |-> Glyph(gname).height,
                         length_px |-> Glyph(gname).length_px]]

\* _skeleton_length, its last line: float(length_px * scale_units_per_pixel)
SkeletonLengthUnits(shape, scale_units_per_pixel) ==
    FMul(shape.length_px, scale_units_per_pixel)

\* variant of ZeroEntry: the literal " " of the space branch as the character
ZeroEntry_space(ch) ==
    [raised |-> FALSE, char |-> " ", length_mm |-> 0, length_units |-> 0]

\* per.append({"char": ch, "length_mm": 0.0}); continue
ZeroEntry(ch) ==
    [raised |-> FALSE, char |-> ch, length_mm |-> 0, length_units |-> 0]

\* variant of LengthMM: a fixed allowance of 1 mm added to the scaled length
LengthMM_allowance(length_units, letter_height_mm, upm) ==
    FAdd(FMul(length_units, FDivInt(letter_height_mm, upm)), Quantum)

\* length_mm = float(length_units * (letter_height_mm / upm))
LengthMM(length_units, letter_height_mm, upm) ==
    FMul(length_units, FDivInt(letter_height_mm, upm))

\* variant of AddUnits: "=" in place of "+="
AddUnits_assign(total, length_units) == length_units

\* total_units += length_units
AddUnits(total, length_units) == FAdd(total, length_units)

\* the body of the loop of compute_lengths for one character
MeasureChar(font, ch, letter_height_mm) ==
    IF ch = " "
    THEN [raised |-> FALSE, char |-> " ", length_mm |-> 0, length_units |-> 0]
    ELSE LET gp == GlyphPolygon(font, ch)
         IN  IF gp.raised
             THEN [raised |-> TRUE, char |-> ch, length_mm |-> 0, length_units |-> 0]
             ELSE IF gp.shape.is_none THEN ZeroEntry(ch)
             ELSE IF gp.shape.is_empty THEN ZeroEntry(ch)
             ELSE LET W == Max(gp.shape.width, gp.shape.height)
                  IN  IF W <= 0 THEN ZeroEntry(ch)
                      ELSE LET units_per_pixel == FDivInt(W, raster)
                               length_units == SkeletonLengthUnits(gp.shape, units_per_pixel)
                           IN  [raised |-> FALSE, char |-> ch,
                                length_mm |-> LengthMM(length_units, letter_height_mm,
                                                       font.upm),
                                length_units |-> length_units]

(***************************************************************************)
(* compute_app.py                                                          *)
(***************************************************************************)
\* hmtx.get(glyph, (units_per_em, 0))[0] with glyph = cmap.get(ord(ch), ".notdef")
Advance(font, ch) ==
    IF font.cmap[ch] = None THEN Glyph(".notdef").advance ELSE Glyph(font.cmap[ch]).advance

RECURSIVE SumAdvances(_, _, _)
\* total_units after the first n characters of text
SumAdvances(font, text, n) ==
    IF n = 0 THEN 0 ELSE SumAdvances(font, text, n - 1) + Advance(font, text[n])

\* compute_lengths_fallback: a dict keyed by character and a total.  An int
\* below 2^53 converts to a float exactly, so adv * scale and
\* total_units * scale round once.
compute_lengths_fallback(font, text, height_mm) ==
    IF ~font.loadable THEN [raised |-> TRUE, kind |-> "none", per |-> <<>>, total |-> 0]
    ELSE LET scale == FDivInt(height_mm, font.upm)
         IN  [raised |-> FALSE,
              kind |-> "dict",
              per |-> [ch \in {text[k] : k \in 1..Len(text)} |->
                          RoundRat(Advance(font, ch) * scale, 1)],
              total |-> RoundRat(SumAdvances(font, text, Len(text)) * scale, 1)]

\* no value returned (yet), and an exception leaving the function
NoResult == [raised |-> FALSE, kind |-> "none", per |-> <<>>, total |-> 0]
Raised == [raised |-> TRUE, kind |-> "none", per |-> <<>>, total |-> 0]

(***************************************************************************)
(* State of one call of compute_lengths_dispatch.                          *)
(***************************************************************************)
VARIABLES
    font_bytes,             \* the font the bytes decode to
    text,                   \* the characters to measure
    height_mm,              \* letter height, a float
    USE_SIMPLE_METRICS,     \* module flag read from the environment
    center_compute_lengths, \* TRUE iff the import of centerline_core succeeded
    dpc,                    \* position in compute_lengths_dispatch
    result,                 \* what compute_lengths_dispatch returned
    cpc,                    \* position in compute_lengths
    idx,                    \* index of the next character of the loop
    per,                    \* local per of compute_lengths
    total_units,            \* local total_units of compute_lengths
    core_result             \* what compute_lengths returned

mvars == <<font_bytes, text, height_mm, USE_SIMPLE_METRICS, center_compute_lengths,
           dpc, result, cpc, idx, per, total_units, core_result>>

MeasureInit ==
    /\ font_bytes \in Fonts
    /\ text \in Texts
    /\ height_mm \in Heights
    /\ USE_SIMPLE_METRICS \in BOOLEAN
    /\ center_compute_lengths \in BOOLEAN
    /\ dpc = "call"
    /\ result = NoResult
    /\ cpc = "idle"
    /\ idx = 0
    /\ per = <<>>
    /\ total_units = 0
    /\ core_result = NoResult

\* compute_lengths_dispatch, the condition holds: call the accurate core
DispatchAccurate ==
    /\ dpc = "call"
    /\ ~USE_SIMPLE_METRICS /\ center_compute_lengths
    /\ dpc' = "core"
    /\ cpc' = "open"
    /\ UNCHANGED <<font_bytes, text, height_mm, USE_SIMPLE_METRICS,
                   center_compute_lengths, result, idx, per, total_units, core_result>>

\* compute_lengths_dispatch, the condition fails: return the fallback's value
DispatchSimple ==
    /\ dpc = "call"
    /\ ~(~USE_SIMPLE_METRICS /\ center_compute_lengths)
    /\ result' = compute_lengths_fallback(font_bytes, text, height_mm)
    /\ dpc' = IF result'.raised THEN "raised" ELSE "returned"
    /\ UNCHANGED <<font_bytes, text, height_mm, USE_SIMPLE_METRICS,
                   center_compute_lengths, cpc, idx, per, total_units, core_result>>

\* compute_lengths: write the bytes, TTFont(fp), read unitsPerEm, per = [], total_units = 0.0
OpenFont ==
    /\ cpc = "open"
    /\ IF font_bytes.loadable
       THEN /\ cpc' = "loop"
            /\ idx' = 1
            /\ per' = <<>>
            /\ total_units' = 0
            /\ core_result' = core_result
       ELSE /\ cpc' = "raised"
            /\ core_result' = Raised
            /\ UNCHANGED <<idx, per, total_units>>
    /\ UNCHANGED <<font_bytes, text, height_mm, USE_SIMPLE_METRICS,
                   center_compute_lengths, dpc, result>>

\* compute_lengths: one iteration of "for ch in text"
MeasureNext ==
    /\ cpc = "loop"
    /\ idx <= Len(text)
    /\ LET m == MeasureChar(font_bytes, text[idx], height_mm)
       IN  IF m.raised
           THEN /\ cpc' = "raised"
                /\ core_result' = Raised
                /\ UNCHANGED <<idx, per, total_units>>
           ELSE /\ per' = Append(per, [char |-> m.char, length_mm |-> m.length_mm])
                /\ total_units' = AddUnits(total_units, m.length_units)
                /\ idx' = idx + 1
                /\ UNCHANGED <<cpc, core_result>>
    /\ UNCHANGED <<font_bytes, text, height_mm, USE_SIMPLE_METRICS,
                   center_compute_lengths, dpc, result>>

\* compute_lengths: total_mm = float(total_units * (letter_height_mm / upm)); return per, total_mm
ReturnLengths ==
    /\ cpc = "loop"
    /\ idx > Len(text)
    /\ core_result' = [raised |-> FALSE, kind |-> "list", per |-> per,
                       total |-> LengthMM(total_units, height_mm, font_bytes.upm)]
    /\ cpc' = "returned"
    /\ UNCHANGED <<font_bytes, text, height_mm, USE_SIMPLE_METRICS,
                   center_compute_lengths, dpc, result, idx, per, total_units>>

\* compute_lengths_dispatch: return center_compute_lengths(...)
DispatchReturn ==
    /\ dpc = "core"
    /\ cpc = "returned"
    /\ result' = core_result
    /\ dpc' = "returned"
    /\ UNCHANGED <<font_bytes, text, height_mm, USE_SIMPLE_METRICS,
                   center_compute_lengths, cpc, idx, per, total_units, core_result>>

\* compute_lengths_dispatch: except Exception: pass, then the fallback
DispatchExcept ==
    /\ dpc = "core"
    /\ cpc = "raised"
    /\ result' = compute_lengths_fallback(font_bytes, text, height_mm)
    /\ dpc' = IF result'.raised THEN "raised" ELSE "returned"
    /\ UNCHANGED <<font_bytes, text, height_mm, USE_SIMPLE_METRICS,
                   center_compute_lengths, cpc, idx, per, total_units, core_result>>

(***************************************************************************)
(* The handler of POST /run, after the call of compute_lengths_dispatch.   *)
(* The request asks for no export (export_svg, export_word_svg and         *)
(* export_report are false), so need_job is false.                         *)
(***************************************************************************)
RECURSIVE Strip(_)
\* str.strip() of a text of Chars
Strip(t) ==
    IF t = <<>> THEN t
    ELSE IF Head(t) = " " THEN Strip(Tail(t))
    ELSE IF t[Len(t)] = " " THEN Strip(SubSeq(t, 1, Len(t) - 1))
    ELSE t

\* the texts run() passes on: stripped, and not rejected as missing
FromRun(t) == t = Strip(t) /\ t # <<>>

\* the integer nearest to a/b, ties to even
NearestInt(a, b) ==
    LET q == a \div b
        r == a % b
    IN  IF 2 * r < b THEN q
        ELSE IF 2 * r > b THEN q + 1
        ELSE IF q % 2 = 0 THEN q ELSE q + 1

\* round(float(v), 2): the float nearest to the nearest hundredth
Round2(v) == RoundRat(NearestInt(v * 100, Quantum) * Quantum, 100)

NoResponse == [status |-> 0, ok |-> FALSE, per_letter |-> <<>>, total_length_mm |-> 0]

\* except Exception as e: return jsonify({"ok": False, "error": str(e)}), 500
Error500 == [status |-> 500, ok |-> FALSE, per_letter |-> <<>>, total_length_mm |-> 0]

\* lines 195-197 and 266: per_letter.items() exists for the dict of the
\* fallback; the list of the accurate core has no attribute 'items', the
\* AttributeError is caught by the handler's except clause
FormatResponse(res) ==
    IF res.kind = "dict"
    THEN [status |-> 200, ok |-> TRUE,
          per_letter |-> [k \in DOMAIN res.per |-> Round2(res.per[k])],
          total_length_mm |-> Round2(res.total)]
    ELSE Error500

VARIABLES resp   \* the response of run(), once sent

hvars == <<resp>>

\* compute_lengths_dispatch returned: format and send the response
RunRespond ==
    /\ dpc = "returned"
    /\ FromRun(text)
    /\ resp = NoResponse
    /\ resp' = FormatResponse(result)

\* compute_lengths_dispatch raised: the except clause of run()
RunError ==
    /\ dpc = "raised"
    /\ FromRun(text)
    /\ resp = NoResponse
    /\ resp' = Error500

(***************************************************************************)
(* Skeleton length estimators.                                             *)
(*                                                                         *)
(* A skeleton is the set of true cells <<y, x>> of a grid_h x grid_w       *)
(* boolean array (row y, column x, from 0).  A length in pixels is a sum   *)
(* of square roots of integers; it is kept exactly, as the coefficients c  *)
(* of the sum of c[f] * sqrt(f) over square-free f (these square roots are *)
(* linearly independent over the rationals, so two lengths are equal iff   *)
(* their coefficients are).                                                *)
(***************************************************************************)
MaxGrid == 3
MaxScale == 2

Radicands == 1..(2 * MaxGrid * MaxGrid)
ZeroLength == [f \in Radicands |-> 0]

\* the largest s with s * s dividing d
SqPart(d) == CHOOSE s \in 1..d : /\ d % (s * s) = 0
                                  /\ \A t \in (s + 1)..d : d % (t * t) # 0

\* sqrt(d), for d >= 0
Root(d) ==
    IF d = 0 THEN ZeroLength
    ELSE [f \in Radicands |-> IF f = d \div (SqPart(d) * SqPart(d)) THEN SqPart(d) ELSE 0]

LenAdd(a, b) == [f \in Radicands |-> a[f] + b[f]]
LenScale(a, k) == [f \in Radicands |-> a[f] * k]
\* n + m * sqrt(2)
AxisDiag(n, m) == [f \in Radicands |-> IF f = 1 THEN n ELSE IF f = 2 THEN m ELSE 0]

Cells(h, w) == (0..(h - 1)) \X (0..(w - 1))

RECURSIVE WhereFrom(_, _, _, _)
\* np.where(skel): the true cells in row-major order, from flat index k on
WhereFrom(A, h, w, k) ==
    IF k >= h * w THEN <<>>
    ELSE LET c == <<k \div w, k % w>>
         IN  IF c \in A THEN <<c>> \o WhereFrom(A, h, w, k + 1)
             ELSE WhereFrom(A, h, w, k + 1)

RECURSIVE StepSum(_, _)
\* the loop of _skeleton_length: sum over i of sqrt(dx*dx + dy*dy)
StepSum(cells, i) ==
    IF i >= Len(cells) THEN ZeroLength
    ELSE LET dx == cells[i + 1][2] - cells[i][2]
             dy == cells[i + 1][1] - cells[i][1]
         IN  LenAdd(Root(dx * dx + dy * dy), StepSum(cells, i + 1))

\* _skeleton_length, from the array skeletonize returned
SkeletonLength(A, h, w, scale_units_per_pixel) ==
    LET cells == WhereFrom(A, h, w, 0)
    IN  IF Len(cells) < 2 THEN ZeroLength
        ELSE LenScale(StepSum(cells, 1), scale_units_per_pixel)

\* (A & np.roll(np.roll(A, -1, axis=0), -sx, axis=1)).sum() for sy in {0, 1}:
\* the cells that are true together with the cell sy rows down and sx
\* columns right of them, indices taken modulo the array shape
RollPairs(A, h, w, sy, sx) ==
    Cardinality({c \in A : <<(c[1] + sy) % h, (c[2] + sx + w) % w>> \in A})

\* _length_from_skeleton_bool
LengthFromSkeletonBool(A, h, w, mm_per_px) ==
    LET e_down  == RollPairs(A, h, w, 1, 0)
        e_right == RollPairs(A, h, w, 0, 1)
        e_dr    == RollPairs(A, h, w, 1, 1)
        e_dl    == RollPairs(A, h, w, 1, -1)
    IN  LenScale(AxisDiag(e_down + e_right, e_dr + e_dl), mm_per_px)

\* a 1-pixel-wide pixel set: no 2 x 2 block of true cells
Thin(A) ==
    \A c \in A : ~({<<c[1] + 1, c[2]>>, <<c[1], c[2] + 1>>, <<c[1] + 1, c[2] + 1>>} \subseteq A)

VARIABLES
    grid_h, grid_w,     \* shape of the array
    skel,               \* the array skeletonize returned, as its set of true cells
    px_scale,           \* units (or mm) per pixel
    core_len,           \* value of _skeleton_length, once called
    export_len          \* value of _length_from_skeleton_bool, once called

lvars == <<grid_h, grid_w, skel, px_scale, core_len, export_len>>

NotCalled == [called |-> FALSE, length |-> ZeroLength]

LengthInit ==
    /\ grid_h \in 1..MaxGrid
    /\ grid_w \in 1..MaxGrid
    /\ skel \in {A \in SUBSET Cells(grid_h, grid_w) : Thin(A)}
    /\ px_scale \in 1..MaxScale
    /\ core_len = NotCalled
    /\ export_len = NotCalled

\* compute_lengths: length_units = _skeleton_length(mask, units_per_pixel)
CallSkeletonLength ==
    /\ ~core_len.called
    /\ core_len' = [called |-> TRUE,
                    length |-> SkeletonLength(skel, grid_h, grid_w, px_scale)]
    /\ UNCHANGED <<grid_h, grid_w, skel, px_scale, export_len>>

\* export_letter_svgs / export_word_svg: Lmm = _length_from_skeleton_bool(skel, mm_per_px)
CallLengthFromSkeletonBool ==
    /\ ~export_len.called
    /\ export_len' = [called |-> TRUE,
                      length |-> LengthFromSkeletonBool(skel, grid_h, grid_w, px_scale)]
    /\ UNCHANGED <<grid_h, grid_w, skel, px_scale, core_len>>

(***************************************************************************)
(* Rasterizer.                                                             *)
(*                                                                         *)
(* A shape is the sequence of its polygons (shape.geoms, or the shape      *)
(* itself); a polygon has an exterior and a sequence of holes; a contour   *)
(* is an axis-aligned rectangle [x0, y0, x1, y1] in font units.  The       *)
(* transform is kept exactly: a transformed coordinate is a numerator over *)
(* the denominator W.                                                      *)
(***************************************************************************)
MaxRaster == 10
RasterSizes == 4..MaxRaster

Rect(x0, y0, x1, y1) == [x0 |-> x0, y0 |-> y0, x1 |-> x1, y1 |-> y1]
Poly(ext, holes) == [ext |-> ext, holes |-> holes]

Shapes == {
    <<>>,
    <<Poly(Rect(0, 0, 4, 4), <<>>)>>,
    <<Poly(Rect(0, 0, 6, 2), <<>>)>>,
    <<Poly(Rect(2, 1, 4, 7), <<>>)>>,
    <<Poly(Rect(0, 0, 6, 6), <<Rect(2, 2, 4, 4)>>)>>,
    <<Poly(Rect(0, 0, 8, 4), <<Rect(1, 1, 3, 3), Rect(5, 1, 7, 3)>>)>>,
    <<Poly(Rect(0, 0, 3, 3), <<Rect(1, 1, 2, 2)>>),
      Poly(Rect(5, 0, 8, 3), <<Rect(6, 1, 7, 2)>>)>>,
    <<Poly(Rect(0, 0, 2, 6), <<>>), Poly(Rect(4, 0, 6, 6), <<>>)>>,
    <<Poly(Rect(0, 0, 8, 8), <<Rect(2, 2, 6, 6)>>), Poly(Rect(3, 3, 5, 5), <<>>)>>,
    <<Poly(Rect(3, 3, 5, 5), <<>>), Poly(Rect(0, 0, 8, 8), <<Rect(2, 2, 6, 6)>>)>>,
    <<Poly(Rect(3, 3, 3, 3), <<>>)>>,
    <<Poly(Rect(2, 0, 2, 5), <<>>)>>,
    <<Poly(Rect(0, 3, 6, 3), <<>>)>>
}

SetMin(S) == CHOOSE m \in S : \A n \in S : m <= n
SetMax(S) == CHOOSE m \in S : \A n \in S : m >= n

\* shape.bounds of a non-empty shape
Bounds(shape) ==
    [minx |-> SetMin({shape[k].ext.x0 : k \in 1..Len(shape)}),
     miny |-> SetMin({shape[k].ext.y0 : k \in 1..Len(shape)}),
     maxx |-> SetMax({shape[k].ext.x1 : k \in 1..Len(shape)}),
     maxy |-> SetMax({shape[k].ext.y1 : k \in 1..Len(shape)})]

\* W = max(maxx - minx, maxy - miny)
Extent(shape) ==
    Max(Bounds(shape).maxx - Bounds(shape).minx, Bounds(shape).maxy - Bounds(shape).miny)

\* the two early returns: shape.is_empty, or W <= 0
ZeroGrid(shape) ==
    IF shape = <<>> THEN TRUE ELSE Extent(shape) <= 0

\* tx(pt), times W:  sx = sy = (R - 2) / W, ox = -minx * sx + 1,
\* tx = (x * sx + ox, (maxy - y) * sy + 1)
tx(shape, R, x, y) ==
    LET b == Bounds(shape)
        W == Extent(shape)
    IN  <<x * (R - 2) + (W - b.minx * (R - 2)), (b.maxy - y) * (R - 2) + W>>

\* the cells draw.polygon paints for a contour: the pixels <<row, column>> of
\* the R x R image on or inside the transformed rectangle
PolygonCells(shape, R, c) ==
    LET W == Extent(shape)
        p == tx(shape, R, c.x0, c.y0)
        q == tx(shape, R, c.x1, c.y1)
    IN  {px \in Cells(R, R) : /\ p[1] <= px[2] * W /\ px[2] * W <= q[1]
                              /\ q[2] <= px[1] * W /\ px[1] * W <= p[2]}

\* compute_lengths: units_per_pixel = W / raster, as the exact rational
\* num / den
UnitsPerPixel(shape, R) == [num |-> Extent(shape), den |-> R]

VARIABLES
    shape,      \* argument shape of _rasterize_polygon_fast
    raster_n,   \* argument raster
    rpc,        \* position in _rasterize_polygon_fast
    poly_i,     \* index of the polygon of the loop "for poly in polys"
    hole_i,     \* index of the hole of the loop "for hole in poly.interiors"
    img         \* the image, as its set of true cells

rvars == <<shape, raster_n, rpc, poly_i, hole_i, img>>

RasterInit ==
    /\ shape \in Shapes
    /\ raster_n \in RasterSizes
    /\ rpc = "start"
    /\ poly_i = 0
    /\ hole_i = 0
    /\ img = {}

\* is_empty or W <= 0: return np.zeros((raster, raster))
ReturnZeros ==
    /\ rpc = "start"
    /\ ZeroGrid(shape)
    /\ rpc' = "done"
    /\ img' = {}
    /\ UNCHANGED <<shape, raster_n, poly_i, hole_i>>

\* the transform, Image.new("1", (raster, raster), 0), polys = ...
NewImage ==
    /\ rpc = "start"
    /\ ~ZeroGrid(shape)
    /\ rpc' = "exterior"
    /\ poly_i' = 1
    /\ img' = {}
    /\ UNCHANGED <<shape, raster_n, hole_i>>

\* draw.polygon(ext, fill=1)
FillExterior ==
    /\ rpc = "exterior"
    /\ poly_i <= Len(shape)
    /\ img' = img \cup PolygonCells(shape, raster_n, shape[poly_i].ext)
    /\ IF shape[poly_i].holes = <<>>
       THEN /\ poly_i' = poly_i + 1
            /\ UNCHANGED <<rpc, hole_i>>
       ELSE /\ rpc' = "holes"
            /\ hole_i' = 1
            /\ UNCHANGED poly_i
    /\ UNCHANGED <<shape, raster_n>>

\* draw.polygon(inter, fill=0)
FillHole ==
    /\ rpc = "holes"
    /\ img' = img \ PolygonCells(shape, raster_n, shape[poly_i].holes[hole_i])
    /\ IF hole_i = Len(shape[poly_i].holes)
       THEN /\ poly_i' = poly_i + 1
            /\ rpc' = "exterior"
            /\ UNCHANGED hole_i
       ELSE /\ hole_i' = hole_i + 1
            /\ UNCHANGED <<rpc, poly_i>>
    /\ UNCHANGED <<shape, raster_n>>

\* return np.array(img, dtype=bool)
ReturnImage ==
    /\ rpc = "exterior"
    /\ poly_i > Len(shape)
    /\ rpc' = "done"
    /\ UNCHANGED <<shape, raster_n, poly_i, hole_i, img>>

(***************************************************************************)
(* GlyphToPolygonPen.  Python lists are objects: `lists` is the heap of    *)
(* the lists the pen allocated, self.points holds references (indices of   *)
(* `lists`) and self.cur is a reference.  Coordinates are exact rationals  *)
(* held as integers in units of 1 / (steps-1)^3, the common denominator of *)
(* the Bezier polynomial at t = k / (steps-1).                             *)
(***************************************************************************)
MaxOps == 4

steps == 24
Den == (steps - 1) * (steps - 1) * (steps - 1)

\* the points a glyph hands to the pen, and the off-curve control points
PenPoints == {<<0, 0>>, <<2, 1>>}
CtrlPoints == {<<1, 3>>}

Scaled(p) == <<p[1] * Den, p[2] * Den>>

\* the point of the cubic at t = k / (steps-1), from the started point c0
Bezier(c0, p1, p2, p3, k) ==
    LET n == steps - 1
        u == n - k
        x0 == c0[1] \div Den
        y0 == c0[2] \div Den
    IN  <<u*u*u*x0 + 3*u*u*k*p1[1] + 3*u*k*k*p2[1] + k*k*k*p3[1],
          u*u*u*y0 + 3*u*u*k*p1[2] + 3*u*k*k*p2[2] + k*k*k*p3[2]>>

\* the points the loop over np.linspace(0, 1, steps) appends
CurvePoints(c0, p1, p2, p3) ==
    [j \in 1..steps |-> Bezier(c0, p1, p2, p3, j - 1)]

\* self.points.append(self.cur); self.cur = []   (a new list object)
Emit_clear(h, pts, c) ==
    [lists |-> [h EXCEPT ![c] = <<>>], points |-> Append(pts, c), cur |-> c]
Emit(h, pts, c) ==
    [lists |-> Append(h, <<>>), points |-> Append(pts, c), cur |-> Len(h) + 1]

\* "if self.cur:" followed by the emission
EmitIfAny(h, pts, c) ==
    IF h[c] # <<>> THEN Emit(h, pts, c)
                   ELSE [lists |-> h, points |-> pts, cur |-> c]

NoPoint == <<0, 0>>

VARIABLES
    lists,      \* the list objects of the pen, by reference
    points,     \* self.points: references of the emitted contours
    cur,        \* self.cur: reference of the contour in progress
    penpc,      \* "drawing", "raised" (IndexError) or "idle"
    calls       \* the pen operations received so far

pvars == <<lists, points, cur, penpc, calls>>

PenInit ==
    /\ lists = <<<<>>>>
    /\ points = <<>>
    /\ cur = 1
    /\ penpc = "drawing"
    /\ calls = <<>>

CanDraw == penpc = "drawing" /\ Len(calls) < MaxOps

moveTo ==
    /\ CanDraw
    /\ \E p \in PenPoints :
          LET e == EmitIfAny(lists, points, cur)
          IN  /\ lists' = [e.lists EXCEPT ![e.cur] = Append(@, Scaled(p))]
              /\ points' = e.points
              /\ cur' = e.cur
              /\ calls' = Append(calls, [op |-> "moveTo", pt |-> Scaled(p)])
    /\ UNCHANGED penpc

lineTo ==
    /\ CanDraw
    /\ \E p \in PenPoints :
          /\ lists' = [lists EXCEPT ![cur] = Append(@, Scaled(p))]
          /\ calls' = Append(calls, [op |-> "lineTo", pt |-> Scaled(p)])
    /\ UNCHANGED <<points, cur, penpc>>

curveTo ==
    /\ CanDraw
    /\ lists[cur] # <<>>
    /\ \E p1 \in CtrlPoints, p2 \in PenPoints, p3 \in PenPoints :
          LET c0 == lists[cur][Len(lists[cur])]
          IN  /\ lists' = [lists EXCEPT ![cur] = @ \o CurvePoints(c0, p1, p2, p3)]
              /\ calls' = Append(calls, [op |-> "curveTo", pt |-> Scaled(p3)])
    /\ UNCHANGED <<points, cur, penpc>>

\* self.cur[-1] of an empty list: IndexError, the draw is abandoned
curveToRaises ==
    /\ CanDraw
    /\ lists[cur] = <<>>
    /\ penpc' = "raised"
    /\ UNCHANGED <<lists, points, cur, calls>>

closePath ==
    /\ CanDraw
    /\ LET e == EmitIfAny(lists, points, cur)
       IN  /\ lists' = e.lists
           /\ points' = e.points
           /\ cur' = e.cur
    /\ calls' = Append(calls, [op |-> "closePath", pt |-> NoPoint])
    /\ UNCHANGED penpc

(***************************************************************************)
(* GET /media/<job_id>/<path:filename>.  A string is the sequence of its   *)
(* characters, a path the sequence of its components.  The file system     *)
(* and send_from_directory are outside the code: whether the file exists   *)
(* is a free choice.                                                       *)
(***************************************************************************)
MaxStr == 3

\* a letter, and the three kinds of character _safe_piece tells apart
MediaChars == {"A", ".", "_", "/"}
AlnumChars == {"A", "a"}

\* what the route hands over: <job_id> is non-empty and has no "/",
\* <path:filename> is non-empty
JobIds == SeqsUpTo(MediaChars \ {"/"}, MaxStr) \ {<<>>}
FileNames == SeqsUpTo(MediaChars, MaxStr) \ {<<>>}

EXPORT_DIR == <<<<"e", "x", "p", "o", "r", "t", "s">>>>

RECURSIVE StripUnderscores(_)
\* s.strip("_")
StripUnderscores(s) ==
    IF s = <<>> THEN s
    ELSE IF Head(s) = "_" THEN StripUnderscores(Tail(s))
    ELSE IF s[Len(s)] = "_" THEN StripUnderscores(SubSeq(s, 1, Len(s) - 1))
    ELSE s

\* _safe_piece
safe_piece(s) ==
    LET kept == [i \in 1..Len(s) |->
                    IF s[i] \in AlnumChars \/ s[i] \in {"-", "_", "."} THEN s[i] ELSE "_"]
        t == StripUnderscores(kept)
    IN  IF t = <<>> THEN <<"f", "i", "l", "e">> ELSE t

RECURSIVE Components(_)
\* the components of a relative path string, split at "/"
Components(s) ==
    IF s = <<>> THEN <<>>
    ELSE LET slashes == {i \in 1..Len(s) : s[i] = "/"}
         IN  IF slashes = {} THEN <<s>>
             ELSE LET i == SetMin(slashes)
                  IN  (IF i = 1 THEN <<>> ELSE <<SubSeq(s, 1, i - 1)>>)
                      \o Components(SubSeq(s, i + 1, Len(s)))

\* os.path.join(directory, piece): an absolute piece replaces the directory
Join(directory, piece) ==
    IF piece # <<>> /\ Head(piece) = "/" THEN Components(piece)
    ELSE directory \o Components(piece)

RECURSIVE Resolve(_)
\* the directory a path names: "." stays, ".." goes to the parent
Resolve(path) ==
    IF path = <<>> THEN <<>>
    ELSE LET front == Resolve(SubSeq(path, 1, Len(path) - 1))
             last == path[Len(path)]
         IN  IF last = <<".">> THEN front
             ELSE IF last = <<".", ".">>
                  THEN (IF front = <<>> THEN front ELSE SubSeq(front, 1, Len(front) - 1))
             ELSE Append(front, last)

\* os.path.splitext(name)[1]: from the last dot, unless only dots precede it
SplitExt(name) ==
    LET dots == {i \in 1..Len(name) : name[i] = "."}
    IN  IF dots = {} THEN <<>>
        ELSE LET i == SetMax(dots)
             IN  IF \A j \in 1..(i - 1) : name[j] = "." THEN <<>>
                 ELSE SubSeq(name, i, Len(name))

\* str.lower()
Lower(s) == [i \in 1..Len(s) |-> IF s[i] = "A" THEN "a" ELSE s[i]]

AttachmentExts ==
    {<<".", "c", "s", "v">>, <<".", "x", "l", "s", "x">>, <<".", "x", "l", "s">>}

NotSent == [status |-> 0, directory |-> <<>>, name |-> <<>>, as_attachment |-> FALSE]

VARIABLES
    url_job_id,     \* <job_id> of the URL
    url_filename,   \* <path:filename> of the URL
    force_dl,       \* request.args.get("dl") == "1"
    job_id,         \* job_id after line 75
    filename,       \* filename after line 76
    job_path,       \* os.path.join(EXPORT_DIR, job_id)
    mediapc,        \* position in media()
    sent            \* what send_from_directory answered

dvars == <<url_job_id, url_filename, force_dl, job_id, filename, job_path, mediapc, sent>>

MediaInit ==
    /\ url_job_id \in JobIds
    /\ url_filename \in FileNames
    /\ force_dl \in BOOLEAN
    /\ job_id = url_job_id
    /\ filename = url_filename
    /\ job_path = <<>>
    /\ mediapc = "start"
    /\ sent = NotSent

\* lines 75-77
Sanitize ==
    /\ mediapc = "start"
    /\ job_id' = safe_piece(job_id)
    /\ filename' = safe_piece(filename)
    /\ job_path' = Join(EXPORT_DIR, job_id')
    /\ mediapc' = "send"
    /\ UNCHANGED <<url_job_id, url_filename, force_dl, sent>>

\* lines 79-89: the file is sent from job_path, or there is no such file
\* ("." and ".." name no file of the directory)
SendFromDirectory ==
    /\ mediapc = "send"
    /\ LET ext == Lower(SplitExt(filename))
           as_attachment == force_dl \/ ext \in AttachmentExts
       IN  \E found \in (IF filename \in {<<".">>, <<".", ".">>}
                           THEN {FALSE} ELSE BOOLEAN) :
              sent' = [status |-> IF found THEN 200 ELSE 404,
                       directory |-> Resolve(job_path),
                       name |-> filename,
                       as_attachment |-> as_attachment]
    /\ mediapc' = "done"
    /\ UNCHANGED <<url_job_id, url_filename, force_dl, job_id, filename, job_path>>

(***************************************************************************)
(* Specifications.  Each runs one part and holds the others still.         *)
(***************************************************************************)
vars == <<mvars, lvars, rvars, pvars, hvars, dvars>>

MeasureIdle ==
    /\ font_bytes = [loadable |-> FALSE, upm |-> 1000, cmap |-> [ch \in Chars |-> None]]
    /\ text = <<>>
    /\ height_mm = 0
    /\ USE_SIMPLE_METRICS = TRUE
    /\ center_compute_lengths = FALSE
    /\ dpc = "idle"
    /\ result = NoResult
    /\ cpc = "idle"
    /\ idx = 0
    /\ per = <<>>
    /\ total_units = 0
    /\ core_result = NoResult

LengthIdle ==
    /\ grid_h = 1
    /\ grid_w = 1
    /\ skel = {}
    /\ px_scale = 1
    /\ core_len = [called |-> TRUE, length |-> ZeroLength]
    /\ export_len = [called |-> TRUE, length |-> ZeroLength]

RasterIdle ==
    /\ shape = <<>>
    /\ raster_n = 4
    /\ rpc = "idle"
    /\ poly_i = 0
    /\ hole_i = 0
    /\ img = {}

RunIdle == resp = NoResponse

MediaIdle ==
    /\ url_job_id = <<"A">>
    /\ url_filename = <<"A">>
    /\ force_dl = FALSE
    /\ job_id = <<"A">>
    /\ filename = <<"A">>
    /\ job_path = <<>>
    /\ mediapc = "idle"
    /\ sent = NotSent

PenIdle ==
    /\ lists = <<<<>>>>
    /\ points = <<>>
    /\ cur = 1
    /\ penpc = "idle"
    /\ calls = <<>>

Init == MeasureInit /\ LengthIdle /\ RasterIdle /\ PenIdle /\ RunIdle /\ MediaIdle
Next ==
    \/ DispatchAccurate /\ UNCHANGED <<lvars, rvars, pvars, hvars, dvars>>
    \/ DispatchSimple /\ UNCHANGED <<lvars, rvars, pvars, hvars, dvars>>
    \/ OpenFont /\ UNCHANGED <<lvars, rvars, pvars, hvars, dvars>>
    \/ MeasureNext /\ UNCHANGED <<lvars, rvars, pvars, hvars, dvars>>
    \/ ReturnLengths /\ UNCHANGED <<lvars, rvars, pvars, hvars, dvars>>
    \/ DispatchReturn /\ UNCHANGED <<lvars, rvars, pvars, hvars, dvars>>
    \/ DispatchExcept /\ UNCHANGED <<lvars, rvars, pvars, hvars, dvars>>
    \/ RunRespond /\ UNCHANGED <<mvars, lvars, rvars, pvars, dvars>>
    \/ RunError /\ UNCHANGED <<mvars, lvars, rvars, pvars, dvars>>
Spec == Init /\ [][Next]_vars

InitLength == MeasureIdle /\ LengthInit /\ RasterIdle /\ PenIdle /\ RunIdle /\ MediaIdle
NextLength ==
    \/ CallSkeletonLength /\ UNCHANGED <<mvars, rvars, pvars, hvars, dvars>>
    \/ CallLengthFromSkeletonBool /\ UNCHANGED <<mvars, rvars, pvars, hvars, dvars>>
SpecLength == InitLength /\ [][NextLength]_vars

InitRaster == MeasureIdle /\ LengthIdle /\ RasterInit /\ PenIdle /\ RunIdle /\ MediaIdle
NextRaster ==
    \/ ReturnZeros /\ UNCHANGED <<mvars, lvars, pvars, hvars, dvars>>
    \/ NewImage /\ UNCHANGED <<mvars, lvars, pvars, hvars, dvars>>
    \/ FillExterior /\ UNCHANGED <<mvars, lvars, pvars, hvars, dvars>>
    \/ FillHole /\ UNCHANGED <<mvars, lvars, pvars, hvars, dvars>>
    \/ ReturnImage /\ UNCHANGED <<mvars, lvars, pvars, hvars, dvars>>
SpecRaster == InitRaster /\ [][NextRaster]_vars

InitPen == MeasureIdle /\ LengthIdle /\ RasterIdle /\ PenInit /\ RunIdle /\ MediaIdle
NextPen ==
    \/ moveTo /\ UNCHANGED <<mvars, lvars, rvars, hvars, dvars>>
    \/ lineTo /\ UNCHANGED <<mvars, lvars, rvars, hvars, dvars>>
    \/ curveTo /\ UNCHANGED <<mvars, lvars, rvars, hvars, dvars>>
    \/ curveToRaises /\ UNCHANGED <<mvars, lvars, rvars, hvars, dvars>>
    \/ closePath /\ UNCHANGED <<mvars, lvars, rvars, hvars, dvars>>
SpecPen == InitPen /\ [][NextPen]_vars

InitMedia == MeasureIdle /\ LengthIdle /\ RasterIdle /\ PenIdle /\ RunIdle /\ MediaInit
NextMedia ==
    \/ Sanitize /\ UNCHANGED <<mvars, lvars, rvars, pvars, hvars>>
    \/ SendFromDirectory /\ UNCHANGED <<mvars, lvars, rvars, pvars, hvars>>
SpecMedia == InitMedia /\ [][NextMedia]_vars

(***************************************************************************)
(* Properties of compute_lengths and compute_lengths_dispatch (Spec).      *)
(***************************************************************************)
RECURSIVE SumMM(_, _)
\* exact sum of the length_mm of the first n entries
SumMM(entries, n) ==
    IF n = 0 THEN 0 ELSE SumMM(entries, n - 1) + entries[n].length_mm

NonZero(entries) == {k \in 1..Len(entries) : entries[k].length_mm > 0}

Abs(x) == IF x >= 0 THEN x ELSE -x

\* the character is a space or has no entry in the character map
SpaceOrUnmapped(ch) == IF ch = " " THEN TRUE ELSE font_bytes.cmap[ch] = None

\* the character's glyph is mapped, drawable, non-empty and of positive extent
Measured(ch) ==
    /\ ch # " "
    /\ font_bytes.cmap[ch] # None
    /\ LET g == Glyph(font_bytes.cmap[ch])
       IN  g.draws /\ get_polygons(g.contours) # <<>> /\ ~g.is_empty
           /\ Max(g.width, g.height) > 0

\* C1: when compute_lengths returns, the per-character list has exactly one
\* entry per character of text, in the order of text, and the 'char' field
\* of the k-th entry is the k-th character, whatever branch handled it; the
\* list under construction satisfies the same for the characters done.
Thm_C1 ==
    /\ cpc = "loop" =>
          /\ Len(per) = idx - 1
          /\ \A k \in 1..Len(per) : per[k].char = text[k]
    /\ cpc = "returned" =>
          /\ core_result.kind = "list"
          /\ Len(core_result.per) = Len(text)
          /\ \A k \in 1..Len(text) : core_result.per[k].char = text[k]

\* a returned list for a text with a space, a measured letter and a letter
\* that took a zero-length branch
Wit_C1 ==
    /\ cpc = "returned"
    /\ Len(text) = 3
    /\ \E k \in 1..3 : text[k] = " "
    /\ \E k \in 1..3 : Measured(text[k])
    /\ \E k \in 1..3 : text[k] # " " /\ ~Measured(text[k])

SpaceOrUnmappedIsZero ==
    /\ cpc \in {"loop", "returned"} =>
          \A k \in 1..Len(per) : SpaceOrUnmapped(text[k]) => per[k].length_mm = 0
    /\ (cpc = "raised" /\ font_bytes.loadable) =>
          /\ idx \in 1..Len(text)
          /\ ~SpaceOrUnmapped(text[idx])
    /\ (cpc = "returned" /\ text = <<"A", " ", "B">> /\ font_bytes.cmap["B"] = None) =>
          /\ Len(core_result.per) = 3
          /\ core_result.per[1].length_mm
                 = MeasureChar(font_bytes, "A", height_mm).length_mm
          /\ core_result.per[2].length_mm = 0
          /\ core_result.per[3].length_mm = 0
          /\ core_result.total = core_result.per[1].length_mm

\* the iteration for a space or an unmapped character appends a zero-length
\* entry and leaves the loop at the next character
SpaceOrUnmappedContinues ==
    (cpc = "loop" /\ idx <= Len(text) /\ <<cpc, idx>>' # <<cpc, idx>>) =>
        (SpaceOrUnmapped(text[idx]) =>
            /\ cpc' = "loop"
            /\ idx' = idx + 1
            /\ per' = Append(per, [char |-> text[idx], length_mm |-> 0])
            /\ total_units' = total_units)

\* C3: every space and every character without a character-map entry gets
\* length 0.0; such a character never makes compute_lengths raise, and the
\* loop goes on to the next character.  For "A B" with a font lacking "B":
\* three entries, lengths [L_A, 0.0, 0.0], total L_A.
Thm_C3 == []SpaceOrUnmappedIsZero /\ [][SpaceOrUnmappedContinues]_vars

\* "A B" measured with a font that has a measurable "A" and no "B"
Wit_C3 ==
    /\ cpc = "returned"
    /\ text = <<"A", " ", "B">>
    /\ font_bytes.cmap["B"] = None
    /\ Measured("A")
    /\ core_result.total > 0

\* C4 as stated: for a text of spaces only, compute_lengths_dispatch returns
\* total 0.0 under every configuration.
Cex_C4 ==
    (dpc = "returned" /\ \A k \in 1..Len(text) : text[k] = " ") => result.total = 0

\* C5: doubling the height doubles every per-character length and the
\* total: the length in font units does not depend on the height, and the
\* length in mm is that length times (height / upm).
Thm_C5 ==
    /\ cpc \in {"loop", "returned"} =>
          \A k \in 1..Len(per) :
              LET m1 == MeasureChar(font_bytes, text[k], height_mm)
                  m2 == MeasureChar(font_bytes, text[k], 2 * height_mm)
              IN  /\ m2.length_mm = 2 * per[k].length_mm
                  /\ m2.length_units = m1.length_units
                  /\ per[k].length_mm
                         = FMul(m1.length_units, FDivInt(height_mm, font_bytes.upm))
    /\ cpc = "returned" =>
          LengthMM(total_units, 2 * height_mm, font_bytes.upm) = 2 * core_result.total

\* a returned result with a non-zero length
Wit_C5 ==
    /\ cpc = "returned"
    /\ core_result.total > 0
    /\ NonZero(core_result.per) # {}

\* some stage raises for font_bytes and text: loading the font, or drawing
\* the glyph of one of the characters
SomeStageRaises ==
    \/ ~font_bytes.loadable
    \/ \E k \in 1..Len(text) :
          /\ text[k] # " "
          /\ font_bytes.cmap[text[k]] # None
          /\ ~Glyph(font_bytes.cmap[text[k]]).draws

\* C6: if loading the font or a stage of some character raises,
\* compute_lengths returns nothing: no list and no total come out, however
\* many characters were measured before.
Thm_C6 ==
    /\ SomeStageRaises => (cpc # "returned" /\ core_result.kind # "list")
    /\ cpc = "raised" => core_result = Raised

\* the exception of the third character, after two characters were measured
Wit_C6 ==
    /\ cpc = "raised"
    /\ Len(per) = 2
    /\ NonZero(per) # {}

(***************************************************************************)
(* Properties of the length estimators (SpecLength).                       *)
(***************************************************************************)
\* number of cells of A whose neighbour dy rows down and dx columns right
\* is in A as well (neighbours in the grid, no wrap-around)
AdjacentPairs(A, dy, dx) ==
    Cardinality({c \in A : <<c[1] + dy, c[2] + dx>> \in A})

\* the neighbour-sum estimate: axis pairs + sqrt(2) * diagonal pairs, times
\* the units per pixel
NeighborSum(A, units_per_pixel) ==
    LenScale(AxisDiag(AdjacentPairs(A, 1, 0) + AdjacentPairs(A, 0, 1),
                      AdjacentPairs(A, 1, 1) + AdjacentPairs(A, 1, -1)),
             units_per_pixel)

\* C7 as stated: the length _skeleton_length returns for a skeleton is the
\* neighbour-sum estimate of that skeleton.
Cex_C7 ==
    core_len.called => core_len.length = NeighborSum(skel, px_scale)

\* A is a horizontal run of L cells
HorizontalRun(A, L) ==
    /\ Cardinality(A) = L
    /\ \E c \in A : A = {<<c[1], c[2] + k>> : k \in 0..(L - 1)}

\* A is a 45-degree diagonal run of L cells, down-right or down-left
DiagonalRun(A, L) ==
    /\ Cardinality(A) = L
    /\ \E c \in A : \/ A = {<<c[1] + k, c[2] + k>> : k \in 0..(L - 1)}
                    \/ A = {<<c[1] + k, c[2] - k>> : k \in 0..(L - 1)}

ShapeCells ==
    {c \in Cells(raster_n, raster_n) :
        \E k \in 1..Len(shape) :
            /\ c \in PolygonCells(shape, raster_n, shape[k].ext)
            /\ \A j \in 1..Len(shape[k].holes) :
                  c \notin PolygonCells(shape, raster_n, shape[k].holes[j])}

\* some hole was filled before the exterior of polygon poly_i
HoleFilledBefore ==
    \E k \in 1..(poly_i - 1) : shape[k].holes # <<>>

\* C9 as stated: no exterior is filled after a hole was filled, and the
\* returned grid is true exactly on the area of the shape.
Cex_C9 ==
    /\ (rpc = "exterior" /\ poly_i <= Len(shape)) => ~HoleFilledBefore
    /\ (rpc = "done" /\ ~ZeroGrid(shape)) => img = ShapeCells

\* the integer points of the bounding box of the shape
BoxPoints ==
    (Bounds(shape).minx..Bounds(shape).maxx) \X (Bounds(shape).miny..Bounds(shape).maxy)

\* C10 as stated: every point of the bounding box is mapped to a column and
\* a row in 1..R-2, that is, outside the first and last row and column.
Cex_C10 ==
    (rpc \in {"exterior", "holes", "done"} /\ ~ZeroGrid(shape)) =>
        \A pt \in BoxPoints :
            LET t == tx(shape, raster_n, pt[1], pt[2])
                W == Extent(shape)
            IN  /\ (t[1] \div W) \in 1..(raster_n - 2)
                /\ (t[2] \div W) \in 1..(raster_n - 2)

\* the bounding box of the shape has zero width or zero height
ZeroWidthOrHeight ==
    \/ Bounds(shape).maxx = Bounds(shape).minx
    \/ Bounds(shape).maxy = Bounds(shape).miny

\* C11 as stated: for a shape whose bounding box has zero width or zero
\* height (either one), _rasterize_polygon_fast returns the all-false grid.
Cex_C11 ==
    (rpc = "done" /\ shape # <<>>) => (ZeroWidthOrHeight => img = {})

(***************************************************************************)
(* Properties of GlyphToPolygonPen (SpecPen).                              *)
(***************************************************************************)
\* the emitted contours, by value
Emitted == [k \in 1..Len(points) |-> lists[points[k]]]

RECURSIVE Concat(_, _)
Concat(cs, n) == IF n = 0 THEN <<>> ELSE Concat(cs, n - 1) \o cs[n]

\* index of the last contour boundary (moveTo or closePath) received, or 0
LastBoundary ==
    LET B == {i \in 1..Len(calls) : calls[i].op \in {"moveTo", "closePath"}}
    IN  IF B = {} THEN 0 ELSE SetMax(B)

\* the on-curve points received before the last contour boundary, in order
ReceivedBefore ==
    LET before == SubSeq(calls, 1, LastBoundary - 1)
        withpt == SelectSeq(before, LAMBDA c : c.op # "closePath")
    IN  [i \in 1..Len(withpt) |-> withpt[i].pt]

RECURSIVE SubseqFrom(_, _, _, _)
SubseqFrom(s, i, t, j) ==
    IF i > Len(s) THEN TRUE
    ELSE IF j > Len(t) THEN FALSE
    ELSE IF s[i] = t[j] THEN SubseqFrom(s, i + 1, t, j + 1)
    ELSE SubseqFrom(s, i, t, j + 1)

\* no emitted contour is empty, and the emitted contours in order contain
\* the points received before the last boundary, in the order received
PenInv ==
    /\ \A k \in 1..Len(points) : Emitted[k] # <<>>
    /\ SubseqFrom(ReceivedBefore, 1, Concat(Emitted, Len(points)), 1)

\* the step emits the contour in progress unchanged iff it has a point
EmitsIffAny ==
    IF lists[cur] # <<>>
    THEN /\ Len(points') = Len(points) + 1
         /\ lists'[points'[Len(points')]] = lists[cur]
    ELSE points' = points

\* what one pen operation does to the emitted contours and the contour in
\* progress
PenStepOK ==
    /\ Len(points') >= Len(points)
    /\ \A k \in 1..Len(points) :
          points'[k] = points[k] /\ lists'[points[k]] = lists[points[k]]
    /\ calls' # calls =>
          LET c == calls'[Len(calls')]
          IN  /\ c.op = "moveTo" => EmitsIffAny /\ lists'[cur'] = <<c.pt>>
              /\ c.op = "closePath" => EmitsIffAny /\ lists'[cur'] = <<>>

OnlyShortContours(ch) ==
    /\ ch # " "
    /\ font_bytes.cmap[ch] # None
    /\ LET g == Glyph(font_bytes.cmap[ch])
       IN  g.draws /\ \A j \in 1..Len(g.contours) : g.contours[j] < 3

\* the polygons built for the glyph are its contours of 3 points or more,
\* each once and in order
LongContoursOnly(g) ==
    LET polys == get_polygons(g.contours)
    IN  /\ \A j \in 1..Len(polys) : polys[j] >= 3
        /\ Len(polys) = Cardinality({j \in 1..Len(g.contours) : g.contours[j] >= 3})

\* C13: a contour of fewer than 3 points is dropped before the shape is
\* assembled; a character whose glyph yields no contour or only such
\* contours gets no shape, its entry has length 0.0, and it never makes
\* compute_lengths raise.
Thm_C13 ==
    /\ \A ch \in Chars \ {" "} :
          (font_bytes.cmap[ch] # None /\ Glyph(font_bytes.cmap[ch]).draws) =>
              LongContoursOnly(Glyph(font_bytes.cmap[ch]))
    /\ \A k \in 1..Len(per) :
          OnlyShortContours(text[k]) =>
              /\ GlyphPolygon(font_bytes, text[k]) = [raised |-> FALSE, shape |-> NoShape]
              /\ per[k] = [char |-> text[k], length_mm |-> 0]
    /\ (cpc = "raised" /\ font_bytes.loadable) => ~OnlyShortContours(text[idx])
    /\ (cpc = "loop" /\ idx > 1 /\ OnlyShortContours(text[idx - 1])) =>
          Len(per) = idx - 1

\* a returned list for a text with a letter drawn with two short contours
\* only and a letter drawn with a short contour among longer ones
Wit_C13 ==
    /\ cpc = "returned"
    /\ \E k \in 1..Len(text) : text[k] # " " /\ font_bytes.cmap[text[k]] = "dot"
    /\ \E k \in 1..Len(text) :
          /\ text[k] # " " /\ font_bytes.cmap[text[k]] = "bar"
          /\ core_result.per[k].length_mm > 0

Cex_C15 ==
    (/\ ~USE_SIMPLE_METRICS /\ center_compute_lengths
     /\ cpc = "raised" /\ dpc \in {"returned", "raised"}) =>
        /\ dpc = "raised"
        /\ result.kind # "dict"

(***************************************************************************)
(* Pixels back to font units (SpecRaster).                                 *)
(***************************************************************************)
\* a run of pixels whose length is the numerator px_num over W, converted
\* by UnitsPerPixel, is units font units long
ConvertsTo(px_num, units) ==
    LET upp == UnitsPerPixel(shape, raster_n)
    IN  px_num * upp.num = units * Extent(shape) * upp.den

\* C16 as stated: the factor compute_lengths applies is the inverse of the
\* scale of the rasterizer: the pixels between the images of two points of
\* the bounding box on a row or on a column convert back to the font units
\* between the two points.
Cex_C16 ==
    (rpc \in {"exterior", "holes", "done"} /\ ~ZeroGrid(shape)) =>
        \A p \in BoxPoints, q \in BoxPoints :
            LET tp == tx(shape, raster_n, p[1], p[2])
                tq == tx(shape, raster_n, q[1], q[2])
            IN  /\ ConvertsTo(tq[1] - tp[1], q[1] - p[1])
                /\ ConvertsTo(tp[2] - tq[2], q[2] - p[2])

(***************************************************************************)
(* The response of run() (Spec).                                           *)
(***************************************************************************)
\* C17 as stated: when compute_lengths_dispatch returned normally, with the
\* list of the accurate pipeline as well as with the dict of the fallback,
\* the handler responds ok:true with status 200, never with status 500.
Cex_C17 ==
    (dpc = "returned" /\ resp # NoResponse) =>
        /\ resp.status = 200
        /\ resp.ok

(***************************************************************************)
(* The pieces and the directory of the media endpoint (SpecMedia).         *)
(***************************************************************************)
\* the piece is non-empty, has no path separator and is not "." or ".."
ProperName(piece) ==
    /\ piece # <<>>
    /\ \A i \in 1..Len(piece) : piece[i] # "/"
    /\ piece # <<".">>
    /\ piece # <<".", ".">>

\* the directory is EXPORT_DIR followed by at least one more component
StrictlyBelowExportDir(directory) ==
    /\ Len(directory) > Len(EXPORT_DIR)
    /\ SubSeq(directory, 1, Len(EXPORT_DIR)) = EXPORT_DIR

\* C18 as stated: both sanitized pieces are non-empty, free of path
\* separators and never "." or "..", and the directory the file is served
\* from is a strict subdirectory of EXPORT_DIR.
Cex_C18 ==
    /\ mediapc \in {"send", "done"} => ProperName(job_id) /\ ProperName(filename)
    /\ mediapc = "done" => StrictlyBelowExportDir(sent.directory)

====
